---- MODULE Spec2Model ----
(***************************************************************************)
(* Metrics core of the SaaS funnel dashboard (src/src/data_processing.py). *)
(*                                                                         *)
(* The caller holds four tables (Users, Events, Plans, Sources) and a      *)
(* clock; the engines compute_funnel, compute_revenue_metrics,             *)
(* compute_cohort_retention, compute_weekly_growth, compute_plan_metrics   *)
(* and compute_source_metrics are applied to them.                         *)
(*                                                                         *)
(* Dates are day numbers; day 0 is Monday 2024-01-01, 00:00.  Every        *)
(* timestamp (event_date, signup_date, as_of_date, utcnow()) is at         *)
(* midnight.  A float is <<kind, n, d>>: the rational n/d in lowest terms *)
(* (d > 0) when kind = "fin", and NaN, +inf, -inf otherwise, as numpy      *)
(* float64 division produces them.                                         *)
(***************************************************************************)
EXTENDS Integers, Sequences, FiniteSets, Bags, TLC

VARIABLES users, events, plans, sources, dtypes, now, last

vars == <<users, events, plans, sources, dtypes, now, last>>

-----------------------------------------------------------------------------
(* Bounds of the model *)

MaxUsers == 2
MaxEvents == 3
MaxStages == 3
MaxWeeks == 2
MaxTicks == 1

(* Program constants *)

ChurnWindowDays == 30
DaysPerWeek == 7
DefaultWeeks == 12

-----------------------------------------------------------------------------
(* float64 values *)

Sign(i) == IF i > 0 THEN 1 ELSE IF i < 0 THEN -1 ELSE 0
Abs(i) == IF i < 0 THEN -i ELSE i

RECURSIVE GCD(_, _)
GCD(a, b) == IF b = 0 THEN a ELSE GCD(b, a % b)

\* The rational n/d (d > 0) in lowest terms
F(n, d) == LET g == GCD(Abs(n), d) IN <<"fin", n \div g, d \div g>>
NaN == <<"nan", 0, 1>>
PosInf == <<"inf", 0, 1>>
NegInf == <<"ninf", 0, 1>>

IsFin(x) == x[1] = "fin"
IsNaN(x) == x[1] = "nan"

\* An integer (a count) as a float
FromInt(i) == F(i, 1)
\* A value with two decimals, given in hundredths: Hundredths(10000) is 100.0
Hundredths(h) == F(h, 100)

\* Equality of float values (NaN is different from everything, itself included)
FEq(x, y) ==
    IF IsFin(x) /\ IsFin(y) THEN x[2] * y[3] = y[2] * x[3]
    ELSE x[1] = y[1] /\ ~IsNaN(x)

FNeg(x) ==
    CASE IsFin(x) -> F(-x[2], x[3])
      [] x[1] = "inf" -> NegInf
      [] x[1] = "ninf" -> PosInf
      [] OTHER -> NaN

FAdd(x, y) ==
    CASE IsNaN(x) \/ IsNaN(y) -> NaN
      [] IsFin(x) /\ IsFin(y) -> F(x[2] * y[3] + y[2] * x[3], x[3] * y[3])
      [] IsFin(x) -> y
      [] IsFin(y) -> x
      [] x[1] = y[1] -> x
      [] OTHER -> NaN

FSub(x, y) == FAdd(x, FNeg(y))

FMul(x, y) ==
    CASE IsNaN(x) \/ IsNaN(y) -> NaN
      [] IsFin(x) /\ IsFin(y) -> F(x[2] * y[2], x[3] * y[3])
      [] OTHER ->
           LET sx == IF IsFin(x) THEN Sign(x[2]) ELSE IF x[1] = "inf" THEN 1 ELSE -1
               sy == IF IsFin(y) THEN Sign(y[2]) ELSE IF y[1] = "inf" THEN 1 ELSE -1
           IN  IF sx * sy = 0 THEN NaN ELSE IF sx * sy > 0 THEN PosInf ELSE NegInf

\* numpy float64 division: x/0 is +-inf, 0/0 is NaN, no error is raised
FDiv(x, y) ==
    CASE IsNaN(x) \/ IsNaN(y) -> NaN
      [] IsFin(x) /\ IsFin(y) ->
           IF y[2] = 0
           THEN IF x[2] = 0 THEN NaN ELSE IF x[2] > 0 THEN PosInf ELSE NegInf
           ELSE F(x[2] * y[3] * Sign(y[2]), x[3] * Abs(y[2]))
      [] IsFin(x) -> F(0, 1)
      [] IsFin(y) -> IF (x[1] = "inf") = (y[2] >= 0) THEN PosInf ELSE NegInf
      [] OTHER -> NaN

\* round(x, 2): the nearest hundredth.  An exact tie (k + 1/2 hundredths) needs a
\* count divisible by 16 and does not occur for the counts and prices of the model
Round2(x) ==
    IF IsFin(x) THEN Hundredths((200 * x[2] + x[3]) \div (2 * x[3])) ELSE x

\* Series.fillna(v) on one value
FillNa(x, v) == IF IsNaN(x) THEN v ELSE x

-----------------------------------------------------------------------------
(* Sets, bags and sequences *)

Min(S) == CHOOSE x \in S : \A y \in S : x <= y
Max(S) == CHOOSE x \in S : \A y \in S : x >= y

RECURSIVE SortedSeq(_)
\* The elements of a finite set of integers in ascending order
SortedSeq(S) ==
    IF S = {} THEN <<>> ELSE <<Min(S)>> \o SortedSeq(S \ {Min(S)})

RECURSIVE SumOver(_, _)
\* Sum of f[x] over the finite set S
SumOver(S, f) ==
    IF S = {} THEN 0
    ELSE LET x == CHOOSE y \in S : TRUE IN f[x] + SumOver(S \ {x}, f)

\* The distinct rows of a table (a DataFrame is a bag of rows)
Rows(table) == BagToSet(table)

\* Optional[...] arguments: None, or a given value
None == <<>>
Some(v) == <<v>>

-----------------------------------------------------------------------------
(* The tables.
   users   : user_id -> [signup_date, plan_id, source_id]   (user_id is unique)
   events  : bag of [user_id, event_type, event_date]
   plans   : plan_id -> [plan_name, price]                  (plan_id is unique)
   sources : source_id -> [source_name]                     (source_id is unique)
   dtypes  : the dtype of the date columns, [signup_date, event_date].  A date
             column read by pd.read_csv is "object": its cells are the strings
             of the file; pd.to_datetime makes it "datetime64[ns]": its cells are
             Timestamps.  signup_date and event_date give the day a cell denotes
             in either form. *)

UserIds == 1 .. MaxUsers
EventTypes == {"visit", "signup", "trial", "paid"}

\* Series.nunique() of user_id over the rows of a bag of event rows
nunique(rows) == Cardinality({e.user_id : e \in rows})

\* Series.pct_change() at position i of a sequence of integers
pct_change(xs, i) ==
    IF i = 1 THEN NaN
    ELSE FSub(FDiv(FromInt(xs[i]), FromInt(xs[i - 1])), FromInt(1))

-----------------------------------------------------------------------------
(* Funnel metrics *)

DefaultStages == <<"visit", "signup", "trial", "paid">>

\* A variant of FunnelGroups that counts event rows (Series.count()) instead of
\* distinct users
FunnelGroupsRowCount(events_df) ==
    [t \in {e.event_type : e \in Rows(events_df)} |->
        LET rows == {e \in Rows(events_df) : e.event_type = t}
        IN  SumOver(rows, [e \in rows |-> CopiesIn(e, events_df)])]

\* events_df.groupby('event_type')['user_id'].nunique(): one entry per event type
\* that occurs
FunnelGroups(events_df) ==
    [t \in {e.event_type : e \in Rows(events_df)} |->
        nunique({e \in Rows(events_df) : e.event_type = t})]

\* .reindex(stages).fillna(0).astype(int)
FunnelCounts(events_df, stages) ==
    LET g == FunnelGroups(events_df)
    IN  [i \in 1 .. Len(stages) |->
            IF stages[i] \in DOMAIN g THEN g[stages[i]] ELSE 0]

\* lambda x: round(x * 100 if x != 1 else 100, 2)
FunnelPrevLambda(x) ==
    Round2(IF ~FEq(x, FromInt(1)) THEN FMul(x, FromInt(100)) ELSE FromInt(100))

\* df['users'].pct_change().fillna(1).apply(lambda ...)
ConversionFromPrev(counts, i) ==
    FunnelPrevLambda(FillNa(pct_change(counts, i), FromInt(1)))

compute_funnel(events_df, stagesArg) ==
    LET stages == IF stagesArg = None THEN DefaultStages ELSE stagesArg[1]
        counts == FunnelCounts(events_df, stages)
        start == IF Len(counts) > 0 THEN counts[1] ELSE 0
    IN  [i \in 1 .. Len(stages) |->
          LET prev == ConversionFromPrev(counts, i)
          IN  [stage |-> stages[i],
               users |-> counts[i],
               conversion_from_start_pct |->
                   Round2(FMul(FDiv(FromInt(counts[i]),
                                    FromInt(IF start > 0 THEN start ELSE 1)),
                               FromInt(100))),
               conversion_from_prev_pct |-> prev,
               drop_off_pct_from_prev |-> Round2(FSub(FromInt(100), prev))]]

-----------------------------------------------------------------------------
(* Revenue metrics *)

RECURSIVE FSum(_, _)
\* Series.sum() / the numerator of Series.mean(): NaN entries are skipped
FSum(S, f) ==
    IF S = {} THEN FromInt(0)
    ELSE LET x == CHOOSE y \in S : TRUE
         IN  FAdd(IF IsNaN(f[x]) THEN FromInt(0) ELSE f[x], FSum(S \ {x}, f))

\* events_df[events_df['event_type'] == 'paid']
PaidEvents(events_df) == {e \in Rows(events_df) : e.event_type = "paid"}

\* .merge(plans_df, on='plan_id', how='left'): the price of a user's plan, NaN when
\* no plan row matches
PriceOf(users_df, plans_df, u) ==
    IF users_df[u].plan_id \in DOMAIN plans_df
    THEN plans_df[users_df[u].plan_id].price
    ELSE NaN

\* A variant of ChurnRate without the guard on paid_count
ChurnRateUnguarded(recent_paid, paid_count) ==
    FMul(FromInt(100),
         FSub(FromInt(1), FDiv(FromInt(recent_paid), FromInt(paid_count))))

\* 100 * (1 - (recent_paid / paid_count)) if paid_count > 0 else 0.0
ChurnRate(recent_paid, paid_count) ==
    IF paid_count > 0
    THEN FMul(FromInt(100),
              FSub(FromInt(1), FDiv(FromInt(recent_paid), FromInt(paid_count))))
    ELSE FromInt(0)

\* paid_events[paid_events['event_date'] >= last_30]['user_id'].nunique()
RecentPaid(events_df, as_of_date) ==
    LET last_30 == as_of_date - ChurnWindowDays
    IN  nunique({e \in PaidEvents(events_df) : e.event_date >= last_30})

\* utcnow is the value datetime.utcnow() returns when the call is made
compute_revenue_metrics(users_df, events_df, plans_df, asOfArg, utcnow) ==
    LET as_of_date == IF asOfArg = None THEN utcnow ELSE asOfArg[1]
        paid_users == {e.user_id : e \in PaidEvents(events_df)}
        paid_count == Cardinality(paid_users)
        merged == {u \in DOMAIN users_df : u \in paid_users}
        price == [u \in merged |-> PriceOf(users_df, plans_df, u)]
        priced == {u \in merged : ~IsNaN(price[u])}
        mrr == FSum(merged, price)
        arpu == IF Cardinality(DOMAIN users_df) > 0
                THEN FDiv(mrr, FromInt(Cardinality(DOMAIN users_df)))
                ELSE FromInt(0)
        avg_rev_per_paid ==
            IF Cardinality(merged) > 0
            THEN FDiv(FSum(merged, price), FromInt(Cardinality(priced)))
            ELSE FromInt(0)
        churn_rate == ChurnRate(RecentPaid(events_df, as_of_date), paid_count)
    IN  [paid_count |-> paid_count,
         mrr |-> Round2(mrr),
         arpu |-> Round2(arpu),
         avg_rev_per_paid_user |-> Round2(avg_rev_per_paid),
         churn_rate_pct_30d |-> Round2(churn_rate)]

-----------------------------------------------------------------------------
(* Calendar *)

\* dt.to_period('W').start_time: the Monday of the date's week
WeekStart(d) == d - (d % DaysPerWeek)

MonthLengths == <<31, 29, 31, 30, 31, 30, 31, 31, 30, 31, 30, 31>>

RECURSIVE MonthStartFrom(_, _, _)
MonthStartFrom(d, first, m) ==
    IF m > Len(MonthLengths) \/ d < first + MonthLengths[m] THEN first
    ELSE MonthStartFrom(d, first + MonthLengths[m], m + 1)

\* dt.to_period('M').start_time, for the dates of 2024
MonthStart(d) == MonthStartFrom(d, 0, 1)

\* pd.date_range(start, end, freq='7D')
DateRange(start, end) ==
    [i \in 1 .. ((end - start) \div DaysPerWeek) + 1 |-> start + DaysPerWeek * (i - 1)]

-----------------------------------------------------------------------------
(* Cohort retention *)

Returned(v) == [raised |-> "", value |-> v]
ValueError == [raised |-> "ValueError", value |-> <<>>]

\* pd.DataFrame()
EmptyFrame == [index |-> <<>>, columns |-> <<>>, cell |-> <<>>]

\* ((event_date - signup_date).dt.days // 7)
PeriodNumber(users_df, e) ==
    (e.event_date - users_df[e.user_id].signup_date) \div DaysPerWeek

\* cohort_pivot.iloc[:, 0]: the first column of the pivot
CohortSizes(pivot, cohort, periods) == pivot[cohort, periods[1]]

compute_cohort_retention(users_df, events_df, cohort_by) ==
    IF cohort_by \notin {"week", "month"} THEN ValueError
    ELSE
    LET cohort == [u \in DOMAIN users_df |->
                     IF cohort_by = "week" THEN WeekStart(users_df[u].signup_date)
                     ELSE MonthStart(users_df[u].signup_date)]
        merged == {e \in Rows(events_df) : e.user_id \in DOMAIN users_df}
        cohortSet == {cohort[e.user_id] : e \in merged}
        periodSet == {PeriodNumber(users_df, e) : e \in merged}
        periods == SortedSeq(periodSet)
        \* groupby(['cohort', 'period_number'])['user_id'].nunique(), pivoted,
        \* .fillna(0)
        cohort_pivot ==
            [c \in cohortSet, p \in periodSet |->
                nunique({e \in merged : /\ cohort[e.user_id] = c
                                        /\ PeriodNumber(users_df, e) = p})]
    IN  IF merged = {} THEN Returned(EmptyFrame)
        ELSE Returned(
            [index |-> SortedSeq(cohortSet),
             columns |-> periods,
             cell |-> [c \in cohortSet, p \in periodSet |->
                        Round2(FMul(FDiv(FromInt(cohort_pivot[c, p]),
                                         FromInt(CohortSizes(cohort_pivot, c, periods))),
                                    FromInt(100)))]])

-----------------------------------------------------------------------------
(* Weekly growth *)

\* metric_map.get(metric); None for a metric that is not a key
metric_map(metric) ==
    CASE metric = "signups" -> Some("signup")
      [] metric = "visits" -> Some("visit")
      [] metric = "trials" -> Some("trial")
      [] metric = "paid" -> Some("paid")
      [] OTHER -> None

\* ts['value'].pct_change().fillna(0).apply(lambda x: round(x * 100, 2)), on the
\* observed weeks
GrowthPctChange(values, i) ==
    Round2(FMul(FillNa(pct_change(values, i), FromInt(0)), FromInt(100)))

\* A variant of Reindex that keeps the observed weeks only
ReindexNoFill(ts, idx) == ts

\* ts.set_index('week_start').reindex(idx, fill_value=0): idx[i] keeps its row when
\* it is an observed week and gets 0 in every column otherwise
Reindex(ts, idx) ==
    [i \in 1 .. Len(idx) |->
        IF \E j \in 1 .. Len(ts) : ts[j].week_start = idx[i]
        THEN ts[CHOOSE j \in 1 .. Len(ts) : ts[j].week_start = idx[i]]
        ELSE [week_start |-> idx[i], value |-> 0, pct_change |-> FromInt(0)]]

\* utcnow is the value datetime.utcnow() returns when the call is made
compute_weekly_growth(users_df, events_df, metric, weeks, utcnow) ==
    LET start == utcnow - DaysPerWeek * weeks
        evt == metric_map(metric)
        selected ==
            IF metric = "active_users"
            THEN {e \in Rows(events_df) : e.event_date >= start}
            ELSE {e \in Rows(events_df) :
                    e.event_type = evt[1] /\ e.event_date >= start}
        weekSeq == SortedSeq({WeekStart(e.event_date) : e \in selected})
        values == [i \in 1 .. Len(weekSeq) |->
                     nunique({e \in selected : WeekStart(e.event_date) = weekSeq[i]})]
        ts == [i \in 1 .. Len(weekSeq) |->
                 [week_start |-> weekSeq[i],
                  value |-> values[i],
                  pct_change |-> GrowthPctChange(values, i)]]
    IN  IF metric # "active_users" /\ evt = None THEN ValueError
        ELSE IF Len(ts) = 0 THEN Returned(<<>>)
        ELSE Returned(Reindex(ts, DateRange(weekSeq[1], weekSeq[Len(weekSeq)])))

-----------------------------------------------------------------------------
(* Plan-wise and traffic source metrics *)

\* users_df.merge(paid_events[['user_id']], on='user_id', how='inner'): the number
\* of rows of the merge that carry user u, one per "paid" event row of u
PaidRowsOf(events_df, u) ==
    LET mine == {e \in PaidEvents(events_df) : e.user_id = u}
    IN  SumOver(mine, [e \in mine |-> CopiesIn(e, events_df)])

\* agg(mrr=('price', 'sum')) over the rows of one group
PlanMrr(events_df, members, price) ==
    FSum(members, [u \in members |-> FMul(FromInt(PaidRowsOf(events_df, u)), price[u])])

compute_plan_metrics(users_df, events_df, plans_df) ==
    LET merged == {u \in DOMAIN users_df : PaidRowsOf(events_df, u) > 0}
        matched == {u \in merged : users_df[u].plan_id \in DOMAIN plans_df}
        nameOf == [u \in matched |-> plans_df[users_df[u].plan_id].plan_name]
        price == [u \in matched |-> plans_df[users_df[u].plan_id].price]
    IN  {LET members == {u \in matched : nameOf[u] = n}
             nrows == SumOver(members, [u \in members |-> PaidRowsOf(events_df, u)])
         IN  [plan_name |-> n,
              paid_users |-> Cardinality(members),
              mrr |-> PlanMrr(events_df, members, price),
              avg_revenue_per_user |->
                  FDiv(PlanMrr(events_df, members, price), FromInt(nrows))]
         : n \in {nameOf[u] : u \in matched}}

compute_source_metrics(users_df, events_df, sources_df) ==
    LET merged == {u \in DOMAIN users_df : PaidRowsOf(events_df, u) > 0}
        matched == {u \in merged : users_df[u].source_id \in DOMAIN sources_df}
        nameOf == [u \in matched |-> sources_df[users_df[u].source_id].source_name]
    IN  {[source_name |-> n,
          paid_users |-> Cardinality({u \in matched : nameOf[u] = n})]
         : n \in {nameOf[u] : u \in matched}}

-----------------------------------------------------------------------------
(* State: the caller's tables, the clock, and the engine call made last *)

\* at: the clock when the call was made
NoCall == [op |-> "none", args |-> <<>>, out |-> <<>>, at |-> 0]

\* The first rows of Plans.csv and Sources.csv as generate_dummy_csv.py writes them
\* (prices in float64: 10.0, 20.0)
PlanCatalogue ==
    <<[plan_name |-> "Basic", price |-> Hundredths(1000)],
      [plan_name |-> "Standard", price |-> Hundredths(2000)]>>
SourceCatalogue ==
    <<[source_name |-> "Google Ads"], [source_name |-> "Organic"]>>

PlanIds == DOMAIN PlanCatalogue
SourceIds == DOMAIN SourceCatalogue
\* A plan_id / source_id with no row in the reference table
UnmatchedPlan == Len(PlanCatalogue) + 1
UnmatchedSource == Len(SourceCatalogue) + 1

\* The clock starts on Monday of the seventh week (day 42); no event is dated later
ClockStart == 6 * DaysPerWeek

\* The date columns as fetch_raw_data returns them, and as pd.read_csv does
ParsedDtypes == [signup_date |-> "datetime64[ns]", event_date |-> "datetime64[ns]"]
CsvDtypes == [signup_date |-> "object", event_date |-> "object"]

\* The tables come from the database (fetch_raw_data)
Init ==
    /\ users = <<>>
    /\ events = EmptyBag
    /\ plans = <<>>
    /\ sources = <<>>
    /\ dtypes = ParsedDtypes
    /\ now = ClockStart
    /\ last = NoCall

\* The tables come from uploaded CSV files (pd.read_csv)
InitCsv ==
    /\ users = <<>>
    /\ events = EmptyBag
    /\ plans = <<>>
    /\ sources = <<>>
    /\ dtypes = CsvDtypes
    /\ now = ClockStart
    /\ last = NoCall

\* One more row in the Users table (user ids are handed out in order), before the
\* snapshot is handed to the engines
AddUser(u, sd, p, s) ==
    /\ last = NoCall
    /\ u = Cardinality(DOMAIN users) + 1
    /\ u <= MaxUsers
    /\ users' = [v \in DOMAIN users \cup {u} |->
                    IF v = u THEN [signup_date |-> sd, plan_id |-> p, source_id |-> s]
                    ELSE users[v]]
    /\ UNCHANGED <<events, plans, sources, now, dtypes, last>>

\* One more row in the Events table
AddEvent(u, t, d) ==
    /\ last = NoCall
    /\ BagCardinality(events) < MaxEvents
    /\ events' = events (+) SetToBag({[user_id |-> u, event_type |-> t, event_date |-> d]})
    /\ UNCHANGED <<users, plans, sources, now, dtypes, last>>

\* The Plans table is read
LoadPlans ==
    /\ last = NoCall
    /\ plans = <<>>
    /\ plans' = PlanCatalogue
    /\ UNCHANGED <<users, events, sources, now, dtypes, last>>

\* The Sources table is read
LoadSources ==
    /\ last = NoCall
    /\ sources = <<>>
    /\ sources' = SourceCatalogue
    /\ UNCHANGED <<users, events, plans, now, dtypes, last>>

\* A week passes
Tick ==
    /\ now < ClockStart + DaysPerWeek * MaxTicks
    /\ now' = now + DaysPerWeek
    /\ UNCHANGED <<users, events, plans, sources, dtypes, last>>

CallFunnel(stagesArg) ==
    /\ last' = [op |-> "funnel", args |-> <<stagesArg>>, at |-> now,
                out |-> compute_funnel(events, stagesArg)]
    /\ UNCHANGED <<users, events, plans, sources, dtypes, now>>

CallRevenue(asOfArg) ==
    /\ last' = [op |-> "revenue", args |-> <<asOfArg>>, at |-> now,
                out |-> compute_revenue_metrics(users, events, plans, asOfArg, now)]
    /\ UNCHANGED <<users, events, plans, sources, dtypes, now>>

CallCohort(cohort_by) ==
    /\ last' = [op |-> "cohort", args |-> <<cohort_by>>, at |-> now,
                out |-> compute_cohort_retention(users, events, cohort_by)]
    /\ UNCHANGED <<users, events, plans, sources, dtypes, now>>

CallWeeklyGrowth(metric, weeks) ==
    /\ last' = [op |-> "weekly_growth", args |-> <<metric, weeks>>, at |-> now,
                out |-> compute_weekly_growth(users, events, metric, weeks, now)]
    /\ UNCHANGED <<users, events, plans, sources, dtypes, now>>

CallPlanMetrics ==
    /\ last' = [op |-> "plan_metrics", args |-> <<>>, at |-> now,
                out |-> compute_plan_metrics(users, events, plans)]
    /\ UNCHANGED <<users, events, plans, sources, dtypes, now>>

CallSourceMetrics ==
    /\ last' = [op |-> "source_metrics", args |-> <<>>, at |-> now,
                out |-> compute_source_metrics(users, events, sources)]
    /\ UNCHANGED <<users, events, plans, sources, dtypes, now>>

\* pd.to_datetime(column, errors='coerce') on a date column of the given dtype:
\* every string cell becomes the Timestamp of its date (the strings of the model
\* are well-formed dates), and a datetime column stays as it is
to_datetime(dtype) == "datetime64[ns]"

\* The result bundle of run_all_metrics_from_csv: every engine with its defaults
run_all_metrics_from_csv(users_df, events_df, plans_df, sources_df, utcnow) ==
    [funnel |-> compute_funnel(events_df, None),
     revenue |-> compute_revenue_metrics(users_df, events_df, plans_df, None, utcnow),
     cohort |-> compute_cohort_retention(users_df, events_df, "week"),
     weekly_growth |->
         compute_weekly_growth(users_df, events_df, "signups", DefaultWeeks, utcnow),
     plan_metrics |-> compute_plan_metrics(users_df, events_df, plans_df),
     source_metrics |-> compute_source_metrics(users_df, events_df, sources_df)]

\* The runner on the caller's data_dict: it assigns the converted date columns to
\* the caller's users and events frames, then applies the six engines
RunAllMetricsFromCsv ==
    /\ dtypes' = [signup_date |-> to_datetime(dtypes.signup_date),
                  event_date |-> to_datetime(dtypes.event_date)]
    /\ last' = [op |-> "run_all_metrics_from_csv", args |-> <<>>, at |-> now,
                out |-> run_all_metrics_from_csv(users, events, plans, sources, now)]
    /\ UNCHANGED <<users, events, plans, sources, now>>

-----------------------------------------------------------------------------
(* Specifications.  Spec applies every engine, any number of times, while the
   clock runs.  The others draw the inputs of one engine from wider sets and
   apply it once to each snapshot. *)

RECURSIVE SeqsUpTo(_, _)
\* The sequences over S of length at most n
SeqsUpTo(S, n) ==
    IF n = 0 THEN {<<>>}
    ELSE LET shorter == SeqsUpTo(S, n - 1)
         IN  shorter \cup {Append(q, x) : q \in shorter, x \in S}

\* The caller's stage lists: distinct stage names
StageLists ==
    {st \in SeqsUpTo(EventTypes, MaxStages) :
        \A i, j \in 1 .. Len(st) : st[i] = st[j] => i = j}

\* Every event of Spec is dated Wednesday of the week before the clock starts
SpecEventDay == ClockStart - 5

Next ==
    \/ \E u \in UserIds, p \in PlanIds : AddUser(u, 0, p, 1)
    \/ \E u \in UserIds, t \in {"signup", "paid"} : AddEvent(u, t, SpecEventDay)
    \/ LoadPlans
    \/ LoadSources
    \/ Tick
    \/ CallFunnel(None)
    \/ CallRevenue(None)
    \/ CallCohort("week")
    \/ CallWeeklyGrowth("signups", 1)
    \/ CallPlanMetrics
    \/ CallSourceMetrics

Spec == Init /\ [][Next]_vars

NextFunnel ==
    \/ \E u \in UserIds, t \in EventTypes : AddEvent(u, t, 0)
    \/ last = NoCall /\ \E st \in StageLists : CallFunnel(Some(st))
    \/ last = NoCall /\ CallFunnel(None)

SpecFunnel == Init /\ [][NextFunnel]_vars

\* Dates of "paid" events: before, inside and after the 30 days that end on day 35
RevenueDays == {0, 10, 40}
RevenueAsOf == {None, Some(35)}

NextRevenue ==
    \/ \E u \in UserIds, p \in PlanIds \cup {UnmatchedPlan} : AddUser(u, 0, p, 1)
    \/ \E u \in UserIds, d \in RevenueDays : AddEvent(u, "paid", d)
    \/ \E u \in UserIds : AddEvent(u, "signup", 0)
    \/ LoadPlans
    \/ last = NoCall /\ \E a \in RevenueAsOf : CallRevenue(a)

SpecRevenue == Init /\ [][NextRevenue]_vars

\* Signup dates in two weeks of January and in February; event dates before and
\* after them
CohortSignupDays == {2, 9, 33}
CohortEventDays == {0, 3, 17}

NextCohort ==
    \/ \E u \in UserIds, sd \in CohortSignupDays : AddUser(u, sd, 1, 1)
    \/ \E u \in UserIds, d \in CohortEventDays : AddEvent(u, "visit", d)
    \/ last = NoCall /\ \E by \in {"week", "month", "day"} : CallCohort(by)

SpecCohort == Init /\ [][NextCohort]_vars

\* Event dates in three consecutive weeks, the last one the day the clock starts
GrowthDays == {29, 37, 42}
GrowthMetrics == {"signups", "visits", "active_users", "revenue"}

NextGrowth ==
    \/ \E u \in UserIds, t \in {"signup", "visit"}, d \in GrowthDays : AddEvent(u, t, d)
    \/ Tick
    \/ last = NoCall /\ \E m \in GrowthMetrics, w \in 1 .. MaxWeeks : CallWeeklyGrowth(m, w)
    \/ last = NoCall /\ CallWeeklyGrowth("signups", DefaultWeeks)

SpecGrowth == Init /\ [][NextGrowth]_vars

NextPlan ==
    \/ \E u \in UserIds, p \in PlanIds \cup {UnmatchedPlan} : AddUser(u, 0, p, 1)
    \/ \E u \in UserIds, t \in {"signup", "paid"} : AddEvent(u, t, 0)
    \/ LoadPlans
    \/ last = NoCall /\ CallPlanMetrics

SpecPlan == Init /\ [][NextPlan]_vars

\* The engines that read a date column need it parsed (.dt and the comparison with
\* a datetime raise on a column of strings)
DatesParsed == dtypes = ParsedDtypes

\* Uploaded CSV files: the runner and the engines, any number of times
NextRunner ==
    \/ \E u \in UserIds, p \in PlanIds : AddUser(u, 0, p, 1)
    \/ \E u \in UserIds, t \in {"signup", "paid"} : AddEvent(u, t, SpecEventDay)
    \/ LoadPlans
    \/ LoadSources
    \/ Tick
    \/ RunAllMetricsFromCsv
    \/ CallFunnel(None)
    \/ CallPlanMetrics
    \/ CallSourceMetrics
    \/ DatesParsed /\ CallRevenue(None)
    \/ DatesParsed /\ CallCohort("week")
    \/ DatesParsed /\ CallWeeklyGrowth("signups", 1)

SpecRunner == InitCsv /\ [][NextRunner]_vars

-----------------------------------------------------------------------------
(* Properties *)

\* The stage list a funnel call used
StagesOf(call) == IF call.args[1] = None THEN DefaultStages ELSE call.args[1][1]

\* The number of distinct user_ids with at least one event of type t
StageUsers(t) ==
    Cardinality({u \in {e.user_id : e \in Rows(events)} :
                    \E e \in Rows(events) : e.user_id = u /\ e.event_type = t})

\* num / den * 100, rounded to 2 decimals
PctOf(num, den) == Round2(FMul(FDiv(FromInt(num), FromInt(den)), FromInt(100)))

\* C1: compute_funnel sets conversion_from_prev_pct of the first stage to 100 and
\* of every later stage to count[i] / count[i-1] * 100 rounded to 2 decimals (stated
\* where count[i-1] > 0), count[k] being the distinct-user count of stage k.
C1_ConversionFromPrevIsRatio ==
    last.op = "funnel" =>
        LET stages == StagesOf(last)
        IN  \A i \in 1 .. Len(last.out) :
              /\ i = 1 => FEq(last.out[i].conversion_from_prev_pct, FromInt(100))
              /\ (i > 1 /\ StageUsers(stages[i - 1]) > 0) =>
                    FEq(last.out[i].conversion_from_prev_pct,
                        PctOf(StageUsers(stages[i]), StageUsers(stages[i - 1])))

\* Every number of a funnel table, a revenue record or a cohort matrix is finite
FunnelFinite(out) ==
    \A i \in 1 .. Len(out) :
        /\ IsFin(out[i].conversion_from_start_pct)
        /\ IsFin(out[i].conversion_from_prev_pct)
        /\ IsFin(out[i].drop_off_pct_from_prev)
RevenueFinite(out) ==
    /\ IsFin(out.mrr)
    /\ IsFin(out.arpu)
    /\ IsFin(out.avg_rev_per_paid_user)
    /\ IsFin(out.churn_rate_pct_30d)
CohortFinite(out) ==
    out.raised = "" => \A k \in DOMAIN out.value.cell : IsFin(out.value.cell[k])

\* C2: every numeric value returned by compute_funnel, compute_revenue_metrics and
\* compute_cohort_retention is a defined finite number, never NaN or infinity, for
\* every input (empty tables, zero denominators and unmatched plan ids included).
C2_EveryValueFinite ==
    /\ last.op = "funnel" => FunnelFinite(last.out)
    /\ last.op = "revenue" => RevenueFinite(last.out)
    /\ last.op = "cohort" => CohortFinite(last.out)

\* C3: in every non-empty matrix compute_cohort_retention returns, the first column
\* is relative period 0 and every row (cohort) has the value 100.00 in it.
C3_CohortPeriodZeroIs100 ==
    (last.op = "cohort" /\ last.out.raised = "" /\ Len(last.out.value.index) > 0) =>
        /\ last.out.value.columns[1] = 0
        /\ \A i \in 1 .. Len(last.out.value.index) :
              FEq(last.out.value.cell[last.out.value.index[i], 0], FromInt(100))

\* The event type a growth metric selects ("" for active_users: any type)
MetricType(metric) ==
    CASE metric = "signups" -> "signup"
      [] metric = "visits" -> "visit"
      [] metric = "trials" -> "trial"
      [] metric = "paid" -> "paid"
      [] OTHER -> ""

\* The week_start values observed by a weekly-growth call: the weeks of the events
\* of the metric's type dated in the window that ended when the call was made
ObservedWeeks(call) ==
    {WeekStart(e.event_date) :
        e \in {x \in Rows(events) :
                 /\ x.event_date >= call.at - DaysPerWeek * call.args[2]
                 /\ call.args[1] # "active_users" =>
                        x.event_type = MetricType(call.args[1])}}

GrowthReturned == last.op = "weekly_growth" /\ last.out.raised = ""

\* C4: the rows of a non-empty result of compute_weekly_growth are exactly the
\* calendar weeks from the minimum to the maximum observed week_start in 7-day
\* steps: floor((max - min) / 7 days) + 1 rows, strictly ascending, no duplicates,
\* and every week without a matching event is present with value 0.
C4_WeeklyRowsContiguous ==
    (GrowthReturned /\ Len(last.out.value) > 0) =>
        LET rows == last.out.value
            lo == Min(ObservedWeeks(last))
            hi == Max(ObservedWeeks(last))
        IN  /\ ObservedWeeks(last) # {}
            /\ Len(rows) = ((hi - lo) \div DaysPerWeek) + 1
            /\ \A i \in 1 .. Len(rows) :
                  /\ rows[i].week_start = lo + DaysPerWeek * (i - 1)
                  /\ rows[i].week_start \notin ObservedWeeks(last) => rows[i].value = 0
                  /\ rows[i].week_start \in ObservedWeeks(last) => rows[i].value > 0
            /\ \A i, j \in 1 .. Len(rows) :
                  i < j => rows[i].week_start < rows[j].week_start

\* A weekly-growth result of three rows or more with a zero-filled week inside
C4_Witness ==
    /\ GrowthReturned
    /\ Len(last.out.value) >= 3
    /\ \E i \in 2 .. Len(last.out.value) - 1 :
          /\ last.out.value[i].value = 0
          /\ last.out.value[i - 1].value > 0

\* C5: in the series compute_weekly_growth returns, pct_change[0] = 0 and for every
\* row i > 0 whose previous row has value > 0, pct_change[i] =
\* (value[i] - value[i-1]) / value[i-1] * 100 rounded to 2 decimals: a zero-filled
\* week after a week with value 5 has pct_change -100.0.
C5_PctChangeMatchesFilledValues ==
    GrowthReturned =>
        LET rows == last.out.value
        IN  \A i \in 1 .. Len(rows) :
              /\ i = 1 => FEq(rows[i].pct_change, FromInt(0))
              /\ (i > 1 /\ rows[i - 1].value > 0) =>
                    FEq(rows[i].pct_change,
                        PctOf(rows[i].value - rows[i - 1].value, rows[i - 1].value))

\* C6: calling an engine twice with the same input snapshot and the same
\* parameters yields identical output, whenever each call is made.
C6_SameCallSameOutput ==
    [][(/\ last.op # "none"
        /\ last'.op = last.op
        /\ last'.args = last.args
        /\ <<users, events, plans, sources>>' = <<users, events, plans, sources>>)
       => last'.out = last.out]_vars

\* C7: for a caller-supplied stage list, compute_funnel returns exactly one row per
\* stage in the caller's order, and each stage's count is the number of distinct
\* user_ids with at least one event of that type (0 for a stage without events).
C7_FunnelRowPerStage ==
    (last.op = "funnel" /\ last.args[1] # None) =>
        LET stages == last.args[1][1]
        IN  /\ Len(last.out) = Len(stages)
            /\ \A i \in 1 .. Len(stages) :
                  /\ last.out[i].stage = stages[i]
                  /\ last.out[i].users = StageUsers(stages[i])

\* A funnel over a caller's list in which one stage has no event and another has a
\* user with a repeated event
C7_Witness ==
    /\ last.op = "funnel"
    /\ last.args[1] # None
    /\ \E i, j \in 1 .. Len(last.out) :
          /\ last.out[i].users = 0
          /\ last.out[j].users = 1
          /\ \E e \in Rows(events) :
                e.event_type = last.out[j].stage /\ CopiesIn(e, events) >= 2

\* as_of of a revenue call: the argument, or the clock when it is None
AsOfOf(call) == IF call.args[1] = None THEN call.at ELSE call.args[1][1]

\* Distinct users with a "paid" event dated in the 30 days that end at as_of
RecentPaidInWindow(as_of) ==
    Cardinality({e.user_id : e \in {x \in Rows(events) :
                    /\ x.event_type = "paid"
                    /\ x.event_date >= as_of - ChurnWindowDays
                    /\ x.event_date <= as_of}})

PaidCount == StageUsers("paid")

\* C8: churn_rate_pct_30d = 100 * (1 - recent_paid_count / paid_count) rounded to 2
\* decimals, recent_paid_count counting the distinct users with a "paid" event
\* dated inside the 30-day window that ends at as_of (events after as_of are not
\* counted), and 0 when paid_count is 0.
C8_ChurnUsesWindowEndingAtAsOf ==
    last.op = "revenue" =>
        FEq(last.out.churn_rate_pct_30d,
            IF PaidCount = 0 THEN FromInt(0)
            ELSE PctOf(PaidCount - RecentPaidInWindow(AsOfOf(last)), PaidCount))

\* C9: when no event has type "paid", compute_revenue_metrics returns
\* {paid_count: 0, mrr: 0.0, arpu: 0.0, avg_rev_per_paid_user: 0.0,
\* churn_rate_pct_30d: 0.0}, also for empty users, events or plans tables.
C9_NoPaidEventAllZero ==
    (last.op = "revenue" /\ PaidCount = 0) =>
        /\ last.out.paid_count = 0
        /\ FEq(last.out.mrr, FromInt(0))
        /\ FEq(last.out.arpu, FromInt(0))
        /\ FEq(last.out.avg_rev_per_paid_user, FromInt(0))
        /\ FEq(last.out.churn_rate_pct_30d, FromInt(0))

\* A revenue record computed from users, plans and events none of which is "paid"
C9_Witness ==
    /\ last.op = "revenue"
    /\ PaidCount = 0
    /\ DOMAIN users # {}
    /\ plans # <<>>
    /\ Rows(events) # {}

\* The price of the plan called name
PriceOfPlan(name) ==
    plans[CHOOSE p \in DOMAIN plans : plans[p].plan_name = name].price

\* C10: in the table of compute_plan_metrics each plan's mrr is paid_users * price
\* and avg_revenue_per_user is the plan price, however many "paid" events a user
\* has; so the mrr of the plan rows sums to the mrr of compute_revenue_metrics.
C10_PlanMrrPerDistinctUser ==
    last.op = "plan_metrics" =>
        /\ \A r \in last.out :
              /\ FEq(r.mrr, FMul(FromInt(r.paid_users), PriceOfPlan(r.plan_name)))
              /\ FEq(r.avg_revenue_per_user, PriceOfPlan(r.plan_name))
        /\ FEq(FSum(last.out, [r \in last.out |-> r.mrr]),
               compute_revenue_metrics(users, events, plans, None, now).mrr)

\* The value of a date cell: the string of the file in an object column, the
\* Timestamp in a datetime column
DateCell(dtype, d) == IF dtype = "object" THEN <<"str", d>> ELSE <<"Timestamp", d>>

\* The caller's Users and Events tables, cell by cell
UsersFrame ==
    [u \in DOMAIN users |->
        [signup_date |-> DateCell(dtypes.signup_date, users[u].signup_date),
         plan_id |-> users[u].plan_id,
         source_id |-> users[u].source_id]]
EventsFrame ==
    [e \in Rows(events) |->
        [user_id |-> e.user_id,
         event_type |-> e.event_type,
         event_date |-> DateCell(dtypes.event_date, e.event_date),
         copies |-> CopiesIn(e, events)]]

\* C11: no operation of the core changes the tables it is given: a call to an
\* engine or to the runner run_all_metrics_from_csv leaves the caller's Users,
\* Events, Plans and Sources tables with the same columns and cell values.
C11_CallsLeaveTablesUnchanged ==
    [][last' # last =>
          <<UsersFrame, EventsFrame, plans, sources>>' =
              <<UsersFrame, EventsFrame, plans, sources>>]_vars

====
